---------------------------- MODULE Spec2Model ----------------------------
(***************************************************************************)
(* rsort: a tool that sorts the import blocks of Python files.             *)
(*                                                                         *)
(* Text is modelled at character level: a string is a sequence of          *)
(* one-character strings, so that lines(), trim(), join(), the import      *)
(* regex, split_whitespace() and the byte-wise comparison of content and   *)
(* new_content are computed the way the code computes them.                *)
(***************************************************************************)
EXTENDS Integers, Sequences, FiniteSets, TLC

(***************************************************************************)
(* Characters.  Ascii lists the characters of the model in code-point      *)
(* order, so that the index of a character orders like its byte value.     *)
(***************************************************************************)
Ascii ==
  << "\t", "\n", "\r", " ", "#", ".", "=",
     "A", "B", "C", "D", "E", "F", "G", "H", "I", "J", "K", "L", "M",
     "N", "O", "P", "Q", "R", "S", "T", "U", "V", "W", "X", "Y", "Z",
     "_",
     "a", "b", "c", "d", "e", "f", "g", "h", "i", "j", "k", "l", "m",
     "n", "o", "p", "q", "r", "s", "t", "u", "v", "w", "x", "y", "z" >>

Upper == { "A", "B", "C", "D", "E", "F", "G", "H", "I", "J", "K", "L", "M",
           "N", "O", "P", "Q", "R", "S", "T", "U", "V", "W", "X", "Y", "Z" }

Code(c) == CHOOSE i \in 1..Len(Ascii) : Ascii[i] = c

\* 'a' - 'A' in index positions of Ascii (26 capitals and the underscore)
LowerOf(c) == IF c \in Upper THEN Ascii[Code(c) + Cardinality(Upper) + 1] ELSE c

\* char::is_whitespace, restricted to the characters of the model
IsWs(c) == c \in { " ", "\t", "\n", "\r" }

SetMin(S) == CHOOSE x \in S : \A y \in S : x <= y
SetMax(S) == CHOOSE x \in S : \A y \in S : x >= y

(***************************************************************************)
(* String primitives of the standard library, as the code uses them.       *)
(***************************************************************************)
\* the first position at or after i that ends the run of whitespace
\* (ws = TRUE) or of non-whitespace (ws = FALSE) characters starting at i
RECURSIVE RunEnd(_, _, _)
RunEnd(s, i, ws) ==
  IF i > Len(s) \/ IsWs(s[i]) # ws THEN i ELSE RunEnd(s, i + 1, ws)

\* the last position at or before i that is no whitespace, 0 if none
RECURSIVE LastNonWs(_, _)
LastNonWs(s, i) ==
  IF i = 0 \/ ~IsWs(s[i]) THEN i ELSE LastNonWs(s, i - 1)

\* the first position at or after i that holds the character c,
\* Len(s) + 1 if none
RECURSIVE IndexOf(_, _, _)
IndexOf(s, c, i) ==
  IF i > Len(s) \/ s[i] = c THEN i ELSE IndexOf(s, c, i + 1)

\* str::trim_start
TrimStart(s) == SubSeq(s, RunEnd(s, 1, TRUE), Len(s))

\* str::trim_end
TrimEnd(s) == SubSeq(s, 1, LastNonWs(s, Len(s)))

\* str::trim
Trim(s) == TrimStart(TrimEnd(s))

\* the pattern w occurs in s at position i (1-based)
HasAt(s, i, w) ==
  /\ i >= 1
  /\ i + Len(w) - 1 <= Len(s)
  /\ \A k \in 1..Len(w) : s[i + k - 1] = w[k]

\* str::starts_with
StartsWith(s, w) == HasAt(s, 1, w)

\* str::contains
Contains(s, w) == \E i \in 1..(Len(s) + 1) : HasAt(s, i, w)

\* str::to_lowercase
ToLower(s) == [ i \in 1..Len(s) |-> LowerOf(s[i]) ]

\* the first position at or after i where a and b differ or one has ended
RECURSIVE FirstDiff(_, _, _)
FirstDiff(a, b, i) ==
  IF i > Len(a) \/ i > Len(b) \/ a[i] # b[i] THEN i ELSE FirstDiff(a, b, i + 1)

\* Ord for str: byte-wise lexicographic comparison
StrCmp(a, b) ==
  LET i == FirstDiff(a, b, 1)
  IN  IF i > Len(a) /\ i > Len(b) THEN "Equal"
      ELSE IF i > Len(a) THEN "Less"
      ELSE IF i > Len(b) THEN "Greater"
      ELSE IF Code(a[i]) < Code(b[i]) THEN "Less" ELSE "Greater"

\* a line without the "\r" that ended it
StripCr(raw) ==
  IF raw # << >> /\ raw[Len(raw)] = "\r" THEN SubSeq(raw, 1, Len(raw) - 1) ELSE raw

\* str::lines: split at "\n", a final empty piece dropped, a "\r" before
\* the "\n" stripped
RECURSIVE Lines(_)
Lines(s) ==
  IF s = << >> THEN << >>
  ELSE LET k == IndexOf(s, "\n", 1)
       IN  IF k > Len(s) THEN << s >>
           ELSE << StripCr(SubSeq(s, 1, k - 1)) >> \o Lines(SubSeq(s, k + 1, Len(s)))

\* [&str]::join("\n")
RECURSIVE Join(_)
Join(ls) ==
  IF ls = << >> THEN << >>
  ELSE IF Len(ls) = 1 THEN ls[1]
  ELSE ls[1] \o << "\n" >> \o Join(Tail(ls))

\* str::split_whitespace, collected
RECURSIVE SplitWhitespace(_)
SplitWhitespace(s) ==
  LET t == TrimStart(s)
  IN  IF t = << >> THEN << >>
      ELSE LET e == RunEnd(t, 1, FALSE)
           IN  << SubSeq(t, 1, e - 1) >> \o SplitWhitespace(SubSeq(t, e, Len(t)))

\* s.split('.').next().unwrap_or("")
BeforeDot(s) == SubSeq(s, 1, IndexOf(s, ".", 1) - 1)

(***************************************************************************)
(* The import pattern  ^(from\s+\S+\s+import\s+\S+|import\s+\S+)           *)
(***************************************************************************)
KwImport == << "i", "m", "p", "o", "r", "t" >>
KwFrom   == << "f", "r", "o", "m" >>

\* import\s+\S+ matches at position i
ImportAt(s, i) ==
  /\ HasAt(s, i, KwImport)
  /\ LET j == i + Len(KwImport)
         k == RunEnd(s, j, TRUE)
     IN  k > j /\ k <= Len(s)

\* from\s+\S+\s+import\s+\S+ matches at position 1
FromAt(s) ==
  /\ HasAt(s, 1, KwFrom)
  /\ LET a == Len(KwFrom) + 1
         b == RunEnd(s, a, TRUE)
         c == RunEnd(s, b, FALSE)
         d == RunEnd(s, c, TRUE)
     IN  b > a /\ c > b /\ d > c /\ ImportAt(s, d)

\* import_re.is_match
import_re(s) == FromAt(s) \/ ImportAt(s, 1)

(***************************************************************************)
(* determine_import_group                                                  *)
(***************************************************************************)
FutureMarker == << "_", "_", "f", "u", "t", "u", "r", "e", "_", "_" >>
FromDot      == << "f", "r", "o", "m", " ", "." >>
FromDotDot   == << "f", "r", "o", "m", " ", ".", "." >>
FromSpace    == << "f", "r", "o", "m", " " >>

stdlib_modules ==
  { << "o", "s" >>,
    << "s", "y", "s" >>,
    << "t", "i", "m", "e" >>,
    << "d", "a", "t", "e", "t", "i", "m", "e" >>,
    << "c", "o", "l", "l", "e", "c", "t", "i", "o", "n", "s" >>,
    << "r", "a", "n", "d", "o", "m" >>,
    << "m", "a", "t", "h" >>,
    << "j", "s", "o", "n" >>,
    << "r", "e" >>,
    << "p", "a", "t", "h", "l", "i", "b" >>,
    << "t", "y", "p", "i", "n", "g" >> }

\* enum ImportGroup, in declaration order (the derived Ord)
ImportGroup == << "Future", "StandardLib", "ThirdParty", "LocalLib" >>

GroupRank(g) == CHOOSE i \in 1..Len(ImportGroup) : ImportGroup[i] = g

\* .nth(1).unwrap_or("")
Nth1(toks) == IF Len(toks) >= 2 THEN toks[2] ELSE << >>

\* the classification with the relative-import rule tried first
determine_import_group_relative_first(import) ==
  IF StartsWith(import, FromDot) \/ StartsWith(import, FromDotDot)
  THEN "LocalLib"
  ELSE IF Contains(import, FutureMarker) THEN "Future"
  ELSE IF BeforeDot(Nth1(SplitWhitespace(import))) \in stdlib_modules
       THEN "StandardLib"
       ELSE "ThirdParty"

determine_import_group(import) ==
  IF Contains(import, FutureMarker) THEN "Future"
  ELSE IF StartsWith(import, FromDot) \/ StartsWith(import, FromDotDot)
       THEN "LocalLib"
  ELSE LET module == IF StartsWith(import, FromSpace)
                     THEN Nth1(SplitWhitespace(import))
                     ELSE Nth1(SplitWhitespace(import))
       IN  IF BeforeDot(module) \in stdlib_modules
           THEN "StandardLib"
           ELSE "ThirdParty"

(***************************************************************************)
(* group_and_sort_imports                                                  *)
(***************************************************************************)
\* the closure without the rule that puts import before from
SortCmpAlpha(a, b) ==
  IF GroupRank(a.group) < GroupRank(b.group) THEN "Less"
  ELSE IF GroupRank(a.group) > GroupRank(b.group) THEN "Greater"
  ELSE StrCmp(ToLower(a.line), ToLower(b.line))

\* the closure handed to sort_by, on two GroupedImport values
SortCmp(a, b) ==
  IF GroupRank(a.group) < GroupRank(b.group) THEN "Less"
  ELSE IF GroupRank(a.group) > GroupRank(b.group) THEN "Greater"
  ELSE IF StartsWith(a.line, KwImport) /\ StartsWith(b.line, KwFrom) THEN "Less"
  ELSE IF StartsWith(a.line, KwFrom) /\ StartsWith(b.line, KwImport) THEN "Greater"
  ELSE StrCmp(ToLower(a.line), ToLower(b.line))

\* slice::sort_by is a stable sort: an element is placed after every
\* element that does not compare Greater than it
InsertStable(sorted, x) ==
  LET gt == { i \in 1..Len(sorted) : SortCmp(sorted[i], x) = "Greater" }
      p  == IF gt = {} THEN Len(sorted) + 1 ELSE SetMin(gt)
  IN  SubSeq(sorted, 1, p - 1) \o << x >> \o SubSeq(sorted, p, Len(sorted))

RECURSIVE SortBy(_)
SortBy(v) ==
  IF v = << >> THEN << >>
  ELSE InsertStable(SortBy(SubSeq(v, 1, Len(v) - 1)), v[Len(v)])

\* the lines of v without repetitions, first occurrences kept
RECURSIVE Dedup(_)
Dedup(v) ==
  IF v = << >> THEN << >>
  ELSE LET init == Dedup(SubSeq(v, 1, Len(v) - 1))
       IN  IF \E i \in 1..Len(init) : init[i] = v[Len(v)]
           THEN init ELSE Append(init, v[Len(v)])

\* grouping and sorting that merges duplicate imports
group_and_sort_merged(imports) ==
  LET uniq    == Dedup(imports)
      grouped == [ i \in 1..Len(uniq) |->
                     [ group |-> determine_import_group(uniq[i]),
                       line  |-> uniq[i] ] ]
  IN  SortBy(grouped)

group_and_sort_imports(imports) ==
  LET grouped == [ i \in 1..Len(imports) |->
                     [ group |-> determine_import_group(imports[i]),
                       line  |-> imports[i] ] ]
  IN  SortBy(grouped)

(***************************************************************************)
(* find_import_blocks.  Line indices are those of the code: 0-based.       *)
(***************************************************************************)
NoBlock == [ open |-> FALSE ]

\* the iteration with a blank line closing the open block
BlockStepBlankCloses(st, i, line) ==
  LET trimmed == Trim(line)
      cur     == st.current_block
  IN  IF import_re(trimmed)
      THEN [ st EXCEPT !.current_block =
               [ open |-> TRUE,
                 imports |-> IF cur.open THEN Append(cur.imports, trimmed)
                             ELSE << trimmed >>,
                 start_line |-> IF cur.open THEN cur.start_line ELSE i,
                 end_line |-> i ] ]
      ELSE IF cur.open
           THEN [ blocks |-> Append(st.blocks,
                               [ imports |-> cur.imports,
                                 start_line |-> cur.start_line,
                                 end_line |-> cur.end_line ]),
                  current_block |-> [ open |-> FALSE ] ]
      ELSE st

\* one iteration of the loop over lines.iter().enumerate(); st holds
\* blocks and current_block
BlockStep(st, i, line) ==
  LET trimmed == Trim(line)
      cur     == st.current_block
  IN  IF import_re(trimmed)
      THEN IF cur.open
           THEN [ st EXCEPT !.current_block =
                    [ open |-> TRUE,
                      imports |-> Append(cur.imports, trimmed),
                      start_line |-> cur.start_line,
                      end_line |-> i ] ]
           ELSE [ st EXCEPT !.current_block =
                    [ open |-> TRUE,
                      imports |-> << trimmed >>,
                      start_line |-> i,
                      end_line |-> i ] ]
      ELSE IF trimmed = << >> /\ cur.open
           THEN st
      ELSE IF cur.open
           THEN [ blocks |-> Append(st.blocks,
                               [ imports |-> cur.imports,
                                 start_line |-> cur.start_line,
                                 end_line |-> cur.end_line ]),
                  current_block |-> NoBlock ]
      ELSE st

RECURSIVE BlockLoop(_, _)
BlockLoop(lines, n) ==
  IF n = 0 THEN [ blocks |-> << >>, current_block |-> NoBlock ]
  ELSE BlockStep(BlockLoop(lines, n - 1), n - 1, lines[n])

find_import_blocks(lines) ==
  LET st  == BlockLoop(lines, Len(lines))
      cur == st.current_block
  IN  IF cur.open
      THEN Append(st.blocks, [ imports |-> cur.imports,
                               start_line |-> cur.start_line,
                               end_line |-> cur.end_line ])
      ELSE st.blocks

(***************************************************************************)
(* process_file: the content it builds from the content it read.           *)
(***************************************************************************)
\* the inner loop over grouped_imports, with current_group
RECURSIVE EmitImports(_, _)
EmitImports(grouped, n) ==
  IF n = 0 THEN << >>
  ELSE LET import == grouped[n]
           sep    == IF n > 1 /\ grouped[n - 1].group # import.group
                     THEN << "\n" >> ELSE << >>
       IN  EmitImports(grouped, n - 1) \o sep \o import.line \o << "\n" >>

\* a single newline after the imports of a block
BlockTrailerOne == << "\n" >>

\* what is pushed after the imports of a block
BlockTrailer == << "\n", "\n" >>

\* one iteration of the loop over import_blocks; st holds new_content and
\* last_end
EmitBlock(lines, st, block) ==
  LET preceding_content ==
        TrimEnd(Join(SubSeq(lines, st.last_end + 1, block.start_line)))
      before  == IF preceding_content # << >>
                 THEN st.new_content \o preceding_content \o << "\n", "\n" >>
                 ELSE st.new_content
      grouped == group_and_sort_imports(block.imports)
  IN  [ new_content |-> before \o EmitImports(grouped, Len(grouped)) \o BlockTrailer,
        last_end    |-> block.end_line + 1 ]

RECURSIVE EmitBlocks(_, _, _)
EmitBlocks(lines, blocks, n) ==
  IF n = 0 THEN [ new_content |-> << >>, last_end |-> 0 ]
  ELSE EmitBlock(lines, EmitBlocks(lines, blocks, n - 1), blocks[n])

\* the remaining content after the last block
Remaining(lines, last_end) ==
  IF last_end < Len(lines)
  THEN TrimStart(Join(SubSeq(lines, last_end + 1, Len(lines))))
  ELSE << >>

\* new_content of process_file, from content
NewContent(content) ==
  LET lines         == Lines(content)
      import_blocks == find_import_blocks(lines)
      st            == EmitBlocks(lines, import_blocks, Len(import_blocks))
  IN  st.new_content \o Remaining(lines, st.last_end)

(***************************************************************************)
(* Inputs.  A file's text is up to MaxLines lines of LineSet joined by     *)
(* "\n" (a final empty line gives a text that ends with a newline).        *)
(***************************************************************************)
MaxLines == 3
MaxRuns  == 2
NumFiles == 3
Threads  == 2

\* ""
LBlank == << >>
\* " "
LSpace == << " " >>
\* "#c"
LComment == << "#", "c" >>
\* " x "
LIndented == << " ", "x", " " >>
\* "import os"
LImportOs == << "i", "m", "p", "o", "r", "t", " ", "o", "s" >>
\* "from re import a"
LFromRe == << "f", "r", "o", "m", " ", "r", "e", " ", "i", "m", "p", "o", "r", "t", " ", "a" >>
\* " import b"
LImportLower == << " ", "i", "m", "p", "o", "r", "t", " ", "b" >>
\* "import B"
LImportUpper == << "i", "m", "p", "o", "r", "t", " ", "B" >>
\* "from . import a"
LRelative == << "f", "r", "o", "m", " ", ".", " ", "i", "m", "p", "o", "r", "t", " ", "a" >>
\* "from __future__ import a"
LFuture == << "f", "r", "o", "m", " ", "_", "_", "f", "u", "t", "u", "r", "e", "_", "_", " ", "i", "m", "p", "o", "r", "t", " ", "a" >>

LineSet == { LBlank, LSpace, LComment, LIndented, LImportOs, LFromRe, LImportLower, LImportUpper, LRelative, LFuture }

Texts == { Join(ls) : ls \in UNION { [ 1..n -> LineSet ] : n \in 0..MaxLines } }

\* the files of a directory: one without imports, one with a block to
\* rewrite, one already in the rewritten form
ParTexts == { LComment, LImportOs, Join(<< LImportOs, LBlank, LBlank, LBlank >>) }

(***************************************************************************)
(* Lines handed to determine_import_group on its own: up to MaxTokens      *)
(* tokens, each a root and a dotted suffix, set apart by one or by two     *)
(* spaces.                                                                 *)
(***************************************************************************)
MaxTokens == 3

TokenRoots == { << >>, KwImport, KwFrom, FutureMarker,
                << "o", "s" >>, << "O", "s" >> }

TokenSubs == { << >>, << ".", "p", "a", "t", "h" >>, << ".", "_", "_", "f", "u", "t", "u", "r", "e", "_", "_" >> }

Tokens == { t \in [ root : TokenRoots, sub : TokenSubs ] : t.root \o t.sub # << >> }

NoTokens == [ toks |-> << >>, gap |-> << >> ]

ClassifyInputs ==
  { [ toks |-> ts, gap |-> g ] :
      ts \in UNION { [ 1..n -> Tokens ] : n \in 1..MaxTokens },
      g \in { << " " >>, << " ", " " >> } }

RECURSIVE FormatTokens(_, _)
FormatTokens(ts, gap) ==
  IF ts = << >> THEN << >>
  ELSE IF Len(ts) = 1 THEN ts[1].root \o ts[1].sub
  ELSE ts[1].root \o ts[1].sub \o gap \o FormatTokens(Tail(ts), gap)

(***************************************************************************)
(* State.                                                                  *)
(***************************************************************************)
VARIABLES
  disk,             \* path -> the file's content on disk
  disk0,            \* path -> its content when the current run started
  pc,               \* path -> where process_file is on that file
  content,          \* path -> process_file's content
  new_content,      \* path -> process_file's new_content
  backups,          \* the backup copies made: <<run, path, content>>
  processed_files,  \* the shared Vec behind the mutex
  outcome,          \* main: "running", "ok" (summary printed), "err"
  run,              \* which run of the tool this is
  tokens,           \* the tokens and the spacing a classified line is made of
  import,           \* the argument of a call of determine_import_group
  group             \* its result ("none" before the call)

vars == << disk, disk0, pc, content, new_content, backups, processed_files,
           outcome, run, tokens, import, group >>

Files == DOMAIN disk

Failed == { "read_failed", "backup_failed", "write_failed" }

Active == { f \in Files : pc[f] \in { "read", "compare", "write", "push" } }

Start0(d) ==
  /\ disk = d
  /\ disk0 = d
  /\ pc = [ f \in DOMAIN d |-> "idle" ]
  /\ content = [ f \in DOMAIN d |-> << >> ]
  /\ new_content = [ f \in DOMAIN d |-> << >> ]
  /\ backups = {}
  /\ processed_files = << >>
  /\ outcome = "running"
  /\ run = 1

\* main on the path of one Python file
Init ==
  /\ \E t \in Texts : Start0([ f \in { 1 } |-> t ])
  /\ tokens = NoTokens
  /\ import = << >>
  /\ group = "none"

\* main on a directory of NumFiles Python files
InitPar ==
  /\ \E d \in [ 1..NumFiles -> ParTexts ] : Start0(d)
  /\ tokens = NoTokens
  /\ import = << >>
  /\ group = "none"

(***************************************************************************)
(* process_file, step by step.                                             *)
(***************************************************************************)
\* a worker of the pool takes the file
Start(f) ==
  /\ outcome = "running"
  /\ pc[f] = "idle"
  /\ Cardinality(Active) < Threads
  /\ pc' = [ pc EXCEPT ![f] = "read" ]
  /\ UNCHANGED << disk, disk0, content, new_content, backups, processed_files,
                  outcome, run, tokens, import, group >>

\* fs::read_to_string succeeds; new_content is built
ReadOk(f) ==
  /\ pc[f] = "read"
  /\ content' = [ content EXCEPT ![f] = disk[f] ]
  /\ new_content' = [ new_content EXCEPT ![f] = NewContent(disk[f]) ]
  /\ pc' = [ pc EXCEPT ![f] = "compare" ]
  /\ UNCHANGED << disk, disk0, backups, processed_files, outcome, run,
                  tokens, import, group >>

\* fs::read_to_string fails
ReadFail(f) ==
  /\ pc[f] = "read"
  /\ pc' = [ pc EXCEPT ![f] = "read_failed" ]
  /\ UNCHANGED << disk, disk0, content, new_content, backups, processed_files,
                  outcome, run, tokens, import, group >>

\* every processed file recorded, changed or not
NoChangeRecorded(f) ==
  /\ pc[f] = "compare"
  /\ content[f] = new_content[f]
  /\ processed_files' = Append(processed_files, f)
  /\ pc' = [ pc EXCEPT ![f] = "done" ]
  /\ UNCHANGED << disk, disk0, content, new_content, backups, outcome, run,
                  tokens, import, group >>

\* content == new_content: "No changes needed"
NoChange(f) ==
  /\ pc[f] = "compare"
  /\ content[f] = new_content[f]
  /\ pc' = [ pc EXCEPT ![f] = "done" ]
  /\ UNCHANGED << disk, disk0, content, new_content, backups, processed_files,
                  outcome, run, tokens, import, group >>

\* content != new_content and create_backup succeeds
BackupOk(f) ==
  /\ pc[f] = "compare"
  /\ content[f] # new_content[f]
  /\ backups' = backups \cup { << run, f, disk[f] >> }
  /\ pc' = [ pc EXCEPT ![f] = "write" ]
  /\ UNCHANGED << disk, disk0, content, new_content, processed_files, outcome,
                  run, tokens, import, group >>

\* a failed backup that does not stop the rewrite
BackupFailIgnored(f) ==
  /\ pc[f] = "compare"
  /\ content[f] # new_content[f]
  /\ pc' = [ pc EXCEPT ![f] = "write" ]
  /\ UNCHANGED << disk, disk0, content, new_content, backups, processed_files,
                  outcome, run, tokens, import, group >>

\* content != new_content and create_backup fails
BackupFail(f) ==
  /\ pc[f] = "compare"
  /\ content[f] # new_content[f]
  /\ pc' = [ pc EXCEPT ![f] = "backup_failed" ]
  /\ UNCHANGED << disk, disk0, content, new_content, backups, processed_files,
                  outcome, run, tokens, import, group >>

\* fs::write succeeds
WriteOk(f) ==
  /\ pc[f] = "write"
  /\ disk' = [ disk EXCEPT ![f] = new_content[f] ]
  /\ pc' = [ pc EXCEPT ![f] = "push" ]
  /\ UNCHANGED << disk0, content, new_content, backups, processed_files,
                  outcome, run, tokens, import, group >>

\* fs::write fails: before it truncated the file, right after, or with
\* part of new_content written
WriteFail(f) ==
  /\ pc[f] = "write"
  /\ \E left \in { disk[f], << >>,
                   SubSeq(new_content[f], 1, Len(new_content[f]) \div 2) } :
       disk' = [ disk EXCEPT ![f] = left ]
  /\ pc' = [ pc EXCEPT ![f] = "write_failed" ]
  /\ UNCHANGED << disk0, content, new_content, backups, processed_files,
                  outcome, run, tokens, import, group >>

\* processed_files.lock().unwrap().push(path)
Push(f) ==
  /\ pc[f] = "push"
  /\ processed_files' = Append(processed_files, f)
  /\ pc' = [ pc EXCEPT ![f] = "done" ]
  /\ UNCHANGED << disk, disk0, content, new_content, backups, outcome, run,
                  tokens, import, group >>

\* try_for_each: once a file has failed, files not yet taken are dropped
Skip(f) ==
  /\ outcome = "running"
  /\ pc[f] = "idle"
  /\ \E g \in Files : pc[g] \in Failed
  /\ pc' = [ pc EXCEPT ![f] = "skipped" ]
  /\ UNCHANGED << disk, disk0, content, new_content, backups, processed_files,
                  outcome, run, tokens, import, group >>

\* main prints the summary and returns Ok
MainOk ==
  /\ outcome = "running"
  /\ \A f \in Files : pc[f] = "done"
  /\ outcome' = "ok"
  /\ UNCHANGED << disk, disk0, pc, content, new_content, backups,
                  processed_files, run, tokens, import, group >>

\* the ? in main: the first error ends the run
MainErr ==
  /\ outcome = "running"
  /\ \E f \in Files : pc[f] \in Failed
  /\ Active = {}
  /\ \A f \in Files : pc[f] # "idle"
  /\ outcome' = "err"
  /\ UNCHANGED << disk, disk0, pc, content, new_content, backups,
                  processed_files, run, tokens, import, group >>

\* the tool is run again on the same path
Rerun ==
  /\ outcome = "ok"
  /\ run < MaxRuns
  /\ run' = run + 1
  /\ disk0' = disk
  /\ pc' = [ f \in Files |-> "idle" ]
  /\ content' = [ f \in Files |-> << >> ]
  /\ new_content' = [ f \in Files |-> << >> ]
  /\ processed_files' = << >>
  /\ outcome' = "running"
  /\ UNCHANGED << disk, backups, tokens, import, group >>

\* main on one Python file, and the tool run again on it
Next ==
  \/ \E f \in Files : Start(f)
  \/ \E f \in Files : ReadOk(f)
  \/ \E f \in Files : ReadFail(f)
  \/ \E f \in Files : NoChange(f)
  \/ \E f \in Files : BackupOk(f)
  \/ \E f \in Files : BackupFail(f)
  \/ \E f \in Files : WriteOk(f)
  \/ \E f \in Files : WriteFail(f)
  \/ \E f \in Files : Push(f)
  \/ MainOk
  \/ MainErr
  \/ Rerun

\* one run of main on a directory:
\* py_files.par_iter().try_for_each(process_file) on the pool
NextPar ==
  \/ \E f \in Files : Start(f)
  \/ \E f \in Files : ReadOk(f)
  \/ \E f \in Files : ReadFail(f)
  \/ \E f \in Files : NoChange(f)
  \/ \E f \in Files : BackupOk(f)
  \/ \E f \in Files : BackupFail(f)
  \/ \E f \in Files : WriteOk(f)
  \/ \E f \in Files : WriteFail(f)
  \/ \E f \in Files : Push(f)
  \/ \E f \in Files : Skip(f)
  \/ MainOk
  \/ MainErr

\* a line to classify on its own
InitClassify ==
  /\ Start0([ f \in { 1 } |-> << >> ])
  /\ \E in \in ClassifyInputs :
       /\ tokens = in
       /\ import = FormatTokens(in.toks, in.gap)
  /\ group = "none"

\* the call of determine_import_group
Classify ==
  /\ group = "none"
  /\ group' = determine_import_group(import)
  /\ UNCHANGED << disk, disk0, pc, content, new_content, backups,
                  processed_files, outcome, run, tokens, import >>

Spec == Init /\ [][Next]_vars

SpecPar == InitPar /\ [][NextPar]_vars

SpecClassify == InitClassify /\ [][Classify]_vars

(***************************************************************************)
(* Properties.  A line is an import line when its trimmed text matches     *)
(* the import pattern, and blank when its trimmed text is empty.           *)
(***************************************************************************)
IsImportLine(l) == import_re(Trim(l))
IsBlankLine(l)  == Trim(l) = << >>

IsOtherLine(l) == ~IsImportLine(l) /\ ~IsBlankLine(l)

\* the lines of ls that are neither blank nor import lines, in order
RECURSIVE OtherLines(_)
OtherLines(ls) ==
  IF ls = << >> THEN << >>
  ELSE (IF IsOtherLine(Head(ls)) THEN << Head(ls) >> ELSE << >>)
         \o OtherLines(Tail(ls))

\* the trimmed text of the import lines of ls, in order
RECURSIVE ImportLines(_)
ImportLines(ls) ==
  IF ls = << >> THEN << >>
  ELSE (IF IsImportLine(Head(ls)) THEN << Trim(Head(ls)) >> ELSE << >>)
         \o ImportLines(Tail(ls))

Range(s) == { s[i] : i \in 1..Len(s) }

Count(s, x) == Cardinality({ i \in 1..Len(s) : s[i] = x })

SameBag(a, b) == \A x \in Range(a) \cup Range(b) : Count(a, x) = Count(b, x)

\* C1: idempotence - on a run of the tool after the first, the content
\* process_file builds from a file equals the content it read, so the file
\* is neither backed up nor written again.
C1_SecondRunNoChange ==
  \A f \in Files :
    (run >= 2 /\ pc[f] = "compare") => new_content[f] = content[f]

\* C2: a file without any import line is left byte-identical: the content
\* built equals the content read.
C2_NoImportsUntouched ==
  \A f \in Files :
    (pc[f] = "compare" /\ \A i \in 1..Len(Lines(content[f])) :
                            ~IsImportLine(Lines(content[f])[i]))
      => new_content[f] = content[f]

\* C3: the non-blank lines that are not import lines appear in the output
\* with exactly their original text, in the same order, and the output has
\* no other such lines.
C3_OtherLinesVerbatim ==
  \A f \in Files :
    pc[f] = "compare"
      => OtherLines(Lines(new_content[f]))
           = OtherLines(Lines(content[f]))

(***************************************************************************)
(* Blank lines around and inside the rewritten blocks, read off the lines  *)
(* of the output.  k gives the kind of every line ("import", "blank" or    *)
(* "other") and g the category of every import line.                       *)
(***************************************************************************)
LineKind(l) ==
  IF IsImportLine(l) THEN "import" ELSE IF IsBlankLine(l) THEN "blank" ELSE "other"

LineGroup(l) ==
  IF IsImportLine(l) THEN determine_import_group(Trim(l)) ELSE "none"

RECURSIVE Kinds(_)
Kinds(ls) ==
  IF ls = << >> THEN << >>
  ELSE Append(Kinds(SubSeq(ls, 1, Len(ls) - 1)), LineKind(ls[Len(ls)]))

RECURSIVE Groups(_)
Groups(ls) ==
  IF ls = << >> THEN << >>
  ELSE Append(Groups(SubSeq(ls, 1, Len(ls) - 1)), LineGroup(ls[Len(ls)]))

\* line i is an import line that continues its category on line i + 1
ContinuesCategory(k, g, i) ==
  /\ i + 1 <= Len(k)
  /\ k[i + 1] = "import"
  /\ g[i + 1] = g[i]

\* one blank line, then an import line of another category
NextCategory(k, g, i) ==
  /\ i + 2 <= Len(k)
  /\ k[i + 1] = "blank"
  /\ k[i + 2] = "import"
  /\ g[i + 2] # g[i]

\* the index of the first non-blank line after line i, 0 when there is none
NextContent(k, i) ==
  LET nb == { j \in (i + 1)..Len(k) : k[j] # "blank" }
  IN  IF nb = {} THEN 0 ELSE SetMin(nb)

\* the index of the last non-blank line before line i, 0 when there is none
PrevContent(k, i) ==
  LET nb == { j \in 1..(i - 1) : k[j] # "blank" }
  IN  IF nb = {} THEN 0 ELSE SetMax(nb)

\* the number of blank lines that directly follow line i
BlanksAfter(k, i) ==
  IF NextContent(k, i) = 0 THEN Len(k) - i ELSE NextContent(k, i) - i - 1

\* line i is the last import line of its block
EndsBlock(k, i) ==
  /\ k[i] = "import"
  /\ NextContent(k, i) # 0 => k[NextContent(k, i)] # "import"

\* line i is the first import line of its block
BeginsBlock(k, i) ==
  /\ k[i] = "import"
  /\ PrevContent(k, i) # 0 => k[PrevContent(k, i)] # "import"

\* a block is at the start of the file, or exactly one blank line
\* separates it from the content before it
BlockLeadOk(k, i) ==
  \/ i = 1
  \/ /\ i >= 3
     /\ k[i - 1] = "blank"
     /\ k[i - 2] # "blank"

\* inside a block: import lines of one category are adjacent, and exactly
\* one blank line separates two categories
BlockInsideOk(k, g, i) ==
  \/ EndsBlock(k, i)
  \/ ContinuesCategory(k, g, i)
  \/ NextCategory(k, g, i)

\* a later block follows the block that ends at line i
HasLaterBlock(k, i) == \E j \in (i + 1)..Len(k) : k[j] = "import"

BlanksOk(out) ==
  LET k == Kinds(out)
      g == Groups(out)
  IN  \A i \in 1..Len(out) :
        k[i] = "import" =>
          /\ BeginsBlock(k, i) => BlockLeadOk(k, i)
          /\ BlockInsideOk(k, g, i)
          /\ EndsBlock(k, i) =>
               IF HasLaterBlock(k, i)
               THEN BlanksAfter(k, i) >= 2
               ELSE BlanksAfter(k, i) = 2

\* as BlanksOk, with one blank line after a block that content follows
OneBlankAfterOk(out) ==
  LET k == Kinds(out)
      g == Groups(out)
  IN  \A i \in 1..Len(out) :
        k[i] = "import" =>
          /\ BeginsBlock(k, i) => BlockLeadOk(k, i)
          /\ BlockInsideOk(k, g, i)
          /\ (EndsBlock(k, i) /\ NextContent(k, i) # 0) => BlanksAfter(k, i) = 1

Runs(ls) ==
  LET k      == Kinds(ls)
      begins == { i \in 1..Len(k) : BeginsBlock(k, i) }
      ends   == { i \in 1..Len(k) : EndsBlock(k, i) }
  IN  { r \in begins \X ends :
          /\ r[1] <= r[2]
          /\ \A j \in r[1]..r[2] : k[j] # "other" }

LinesOf(grouped) == [ i \in 1..Len(grouped) |-> grouped[i].line ]

\* C5: the import lines of every block, compared by their trimmed text,
\* are the same multiset in the output as in the input, and so are the
\* import lines of the whole file; group_and_sort_imports returns a
\* permutation of the lines it is given.
C5_ImportsPreserved ==
  \A f \in Files :
    pc[f] = "compare" =>
      LET inl  == Lines(content[f])
          outl == Lines(new_content[f])
          inb  == find_import_blocks(inl)
          outb == find_import_blocks(outl)
      IN  /\ SameBag(ImportLines(inl), ImportLines(outl))
          /\ Cardinality(Runs(outl)) = Cardinality(Runs(inl))
          /\ Len(outb) = Len(inb)
          /\ \A k \in 1..Len(inb) :
               /\ SameBag(inb[k].imports, outb[k].imports)
               /\ Len(outb[k].imports) = Len(inb[k].imports)
               /\ SameBag(LinesOf(group_and_sort_imports(inb[k].imports)),
                          inb[k].imports)

\* a block that holds the same line twice and is emitted in another order
C5_Witness ==
  \E f \in Files :
    /\ pc[f] = "compare"
    /\ LET inb  == find_import_blocks(Lines(content[f]))
           outb == find_import_blocks(Lines(new_content[f]))
       IN  \E k \in 1..Len(inb) :
             /\ \E x \in Range(inb[k].imports) : Count(inb[k].imports, x) = 2
             /\ outb[k].imports # inb[k].imports

\* the sort key of an import line: category, keyword class, lowercased text
KeyClass(l) == IF StartsWith(l, KwImport) THEN "import" ELSE "from"

KeyLeq(x, y) ==
  LET gx == GroupRank(determine_import_group(x))
      gy == GroupRank(determine_import_group(y))
  IN  \/ gx < gy
      \/ /\ gx = gy
         /\ \/ KeyClass(x) = "import" /\ KeyClass(y) = "from"
            \/ /\ KeyClass(x) = KeyClass(y)
               /\ StrCmp(ToLower(x), ToLower(y)) # "Greater"

\* the elements of s that are x or y, in order
RECURSIVE Restrict(_, _, _)
Restrict(s, x, y) ==
  IF s = << >> THEN << >>
  ELSE (IF Head(s) \in { x, y } THEN << Head(s) >> ELSE << >>)
         \o Restrict(Tail(s), x, y)

HasFutureMarker(t) == t.root = FutureMarker \/ t.sub = << ".", "_", "_", "f", "u", "t", "u", "r", "e", "_", "_" >>

BeginsRelative(in) ==
  /\ Len(in.toks) >= 2
  /\ in.toks[1] = [ root |-> KwFrom, sub |-> << >> ]
  /\ in.gap = << " " >>
  /\ in.toks[2].root = << >>

ExpectedGroup(in) ==
  IF \E i \in 1..Len(in.toks) : HasFutureMarker(in.toks[i]) THEN "Future"
  ELSE IF BeginsRelative(in) THEN "LocalLib"
  ELSE IF Len(in.toks) >= 2 /\ in.toks[2].root \in stdlib_modules
       THEN "StandardLib"
  ELSE "ThirdParty"

\* C10: determine_import_group is total and the first matching rule wins:
\* Future for a line that contains __future__ (also when it begins with
\* "from ."), else LocalLib for a line that begins with "from .", else
\* StandardLib exactly when the part of the second token before its first
\* dot is in the standard-library list, else ThirdParty (also for a line
\* without a second token).
C10_Classification ==
  group # "none" =>
    /\ group \in Range(ImportGroup)
    /\ group = ExpectedGroup(tokens)

\* a line that begins with "from ." and holds __future__ was classified
C10_Witness ==
  /\ group = "Future"
  /\ StartsWith(import, FromDot)

(***************************************************************************)
(* The shared list of modified files, and failures.                        *)
(***************************************************************************)
\* the rewrite changes the file as it was when the run started
Changes(f) == NewContent(disk0[f]) # disk0[f]

ModifiedListOk ==
  /\ \A i \in 1..Len(processed_files) :
       LET f == processed_files[i]
       IN  /\ pc[f] = "done"
           /\ disk[f] # disk0[f]
           /\ disk[f] = NewContent(disk0[f])
  /\ \A i, j \in 1..Len(processed_files) :
       i # j => processed_files[i] # processed_files[j]
  /\ \A f \in Files :
       (\/ disk[f] # disk0[f]
        \/ pc[f] \in { "write", "push", "write_failed" }
        \/ f \in Range(processed_files)) => Changes(f)
  /\ outcome = "ok" => Range(processed_files) = { f \in Files : Changes(f) }

AppendOnly ==
  \/ processed_files' = processed_files
  \/ \E f \in Files : processed_files' = Append(processed_files, f)

\* C7: under any interleaving of the workers, every path in
\* processed_files is a file whose rewritten content differs from its
\* original and whose write has completed; a file whose rewritten content
\* equals its original is never written and never appended; the list is
\* only appended to; when the run ends without error the list
\* holds exactly the changed files, each once.
C7_ModifiedList == []ModifiedListOk /\ [][AppendOnly]_vars

\* a run that ended well with two files in the list, pushed in another
\* order than the directory's, and a third file left as it was
C7_Witness ==
  /\ outcome = "ok"
  /\ Len(processed_files) = 2
  /\ processed_files[1] > processed_files[2]
  /\ \E f \in Files : pc[f] = "done" /\ f \notin Range(processed_files)

BackupFirstOk ==
  /\ \A f \in Files :
       (disk[f] # disk0[f] \/ pc[f] \in { "write", "push", "write_failed" })
         => << run, f, disk0[f] >> \in backups
  /\ \A f \in Files :
       pc[f] \in { "read_failed", "backup_failed" } =>
         /\ disk[f] = disk0[f]
         /\ f \notin Range(processed_files)
  /\ (\E f \in Files : pc[f] \in Failed) => outcome # "ok"
  /\ (/\ outcome = "running"
      /\ \E f \in Files : pc[f] \in Failed
      /\ \A f \in Files : pc[f] \in Failed \cup { "done", "skipped" })
       => (ENABLED MainErr /\ ~ENABLED MainOk)

EndsInError ==
  ((\E f \in Files : pc[f] \in Failed) /\ outcome' # outcome) => outcome' = "err"

\* C8: a file is overwritten only after its backup copy was made; a file
\* whose read or backup failed is unchanged on disk and not in the list;
\* once a read, a backup or a write has failed, the run can only end in
\* the error outcome and the summary is not printed.
C8_BackupAndAbort == []BackupFirstOk /\ [][EndsInError]_vars

\* a run that ended in error on a failed backup, after another file had
\* been backed up, rewritten and recorded
C8_Witness ==
  /\ outcome = "err"
  /\ \E f \in Files : pc[f] = "backup_failed"
  /\ \E g \in Files :
       /\ g \in Range(processed_files)
       /\ disk[g] # disk0[g]
       /\ << run, g, disk0[g] >> \in backups

=============================================================================
